---- MODULE Spec2Model ----
(***************************************************************************)
(* Connect4AI: the game grid (connect4game.py) and the game-tree search    *)
(* player (connect4ai.py).                                                 *)
(*                                                                         *)
(* A grid's data is a sequence of rows, bottom row first; a row is a       *)
(* sequence of cells; a cell is " ", "X" or "O".  Python's 0-based indices *)
(* are kept in every operator that takes a row or a column, and Cell       *)
(* converts them to TLA+'s 1-based sequences.  A Python string built by    *)
(* "".join(...) is the sequence of its one-character cells.                *)
(***************************************************************************)
EXTENDS Integers, Sequences, FiniteSets, TLC

VARIABLES
    grid,               \* the GameGrid the calls of SpecGrid and SpecLines are made on
    call,               \* the last call: its receiver, its arguments, its result
    lists,              \* SpecHeap: the list objects (a grid's data), by reference
    grids,              \* SpecHeap: the GameGrid objects, by reference
    states,             \* SpecHeap: the GameState objects, by reference
    born,               \* SpecHeap: each GameGrid's cells when it was constructed
    totalNodesCreated,  \* GameState.totalNodesCreated
    main                \* SpecMain: the locals of main() and where it stands

heapVars == <<lists, grids, states, born, totalNodesCreated>>

vars == <<grid, call, lists, grids, states, born, totalNodesCreated, main>>

\* main() is not running
NotRunning == [pc |-> "none"]

(***************************************************************************)
(* Bounds of the model.                                                    *)
(***************************************************************************)
\* markers a grid explored by SpecGrid may hold
MaxMoves == 4
\* largest search depth limit handed to MiniMaxAIPlayer
MaxDepth == 2
\* markers on a grid drawn by SpecLines
MaxMarkers == 4
\* GameGrid objects SpecHeap constructs
MaxGrids == 4
\* GameState objects SpecHeap constructs
MaxStates == 3
\* GameGrid objects alive at once where their memo of strings is followed
MaxCachedGrids == 3

\* (numRows, numCols) of the grids makeEmptyGrid builds in SpecGrid
GridDims == {<<2, 2>>, <<1, 4>>, <<4, 4>>}
\* (numRows, numCols) of the grids SpecLines draws
LineDims == {<<4, 5>>, <<5, 4>>}
\* (numRows, numCols) of the grids makeEmptyGrid builds in SpecHeap
HeapDims == {<<2, 2>>, <<1, 2>>, <<1, 1>>}
\* numRows, numCols of the grids main() plays on
MainDims == {<<2, 2>>, <<2, 4>>, <<4, 2>>}

(***************************************************************************)
(* Python values.                                                          *)
(***************************************************************************)
EMPTY == " "
PLAYER_CHARS == <<"X", "O">>
Players == {PLAYER_CHARS[1], PLAYER_CHARS[2]}

\* range(a, b) as a sequence
Range(a, b) == [i \in 1..(IF b > a THEN b - a ELSE 0) |-> a + i - 1]

Max(a, b) == IF a >= b THEN a ELSE b

\* list[i] for a list of length n: does it raise IndexError, and if not,
\* which 0-based position does it name (negative indices count from the end)
PyIndexError(n, i) == i >= n \/ i < -n
PyIndex(n, i) == IF i < 0 THEN n + i ELSE i

\* what a call does: return a value, or raise
ReturnGrid(g) == [kind |-> "grid", val |-> g]
ReturnNone == [kind |-> "None"]
ReturnList(s) == [kind |-> "list", val |-> s]
ReturnBool(b) == [kind |-> "bool", val |-> b]
ReturnValue(v) == [kind |-> "value", val |-> v]
ReturnColumn(c) == [kind |-> "column", val |-> c]
ReturnRef(r) == [kind |-> "ref", val |-> r]
Raise(exc, where) == [kind |-> "raise", exc |-> exc, where |-> where]

\* search node values: finite numbers and math.inf, -math.inf
Fin(n) == <<0, n>>
PosInf == <<1, 0>>
NegInf == <<-1, 0>>

(***************************************************************************)
(* GameGrid                                                                *)
(***************************************************************************)
getOpponentChar(playerChar) ==
    LET index == IF playerChar = PLAYER_CHARS[1] THEN 0 ELSE 1
    IN  PLAYER_CHARS[(1 - index) + 1]

\* GameGrid.__init__ on a list value: the grid owns a deep copy of it
GameGrid(data) ==
    [data |-> data, numRows |-> Len(data), numCols |-> Len(data[1])]

makeEmptyGrid(numRows, numCols) ==
    GameGrid([r \in 1..numRows |-> [c \in 1..numCols |-> EMPTY]])

Cell(data, r, c) == data[r + 1][c + 1]

\* checkColumnFull reading data[0], the bottom row, for data[-1]
checkColumnFullBottomRow(self, columnNum) ==
    Cell(self.data, 0, columnNum) # EMPTY

checkColumnFull(self, columnNum) ==
    Cell(self.data, self.numRows - 1, columnNum) # EMPTY

\* getNonFullColumnIndices without its filter
getNonFullColumnIndicesUnfiltered(self) == Range(0, self.numCols)

getNonFullColumnIndices(self) ==
    SelectSeq(Range(0, self.numCols), LAMBDA c : ~checkColumnFull(self, c))

\* ' ' not in self.data[0]: the bottom row in place of the top row
checkAllColumnsFullBottomRow(self) ==
    \A i \in 1..self.numCols : self.data[1][i] # EMPTY

checkAllColumnsFull(self) ==
    \A i \in 1..self.numCols : self.data[self.numRows][i] # EMPTY

\* the loop of newGridAfterMove run from the top row down
PlaceMarkerTopmost(data, playerChar, columnToPlayIn) ==
    LET numRows == Len(data)
        numCols == Len(data[1])
        col == PyIndex(numCols, columnToPlayIn)
        open == {row \in 0..(numRows - 1) : Cell(data, row, col) = EMPTY}
        row == CHOOSE r \in open : \A q \in open : r >= q
    IN  IF PyIndexError(numCols, columnToPlayIn) THEN Raise("IndexError", 50)
        ELSE IF open = {} THEN ReturnNone
        ELSE ReturnGrid([data EXCEPT ![row + 1][col + 1] = playerChar])

\* the loop of newGridAfterMove on the copied data: the first row, from the
\* bottom, whose cell in the column is empty takes the marker
PlaceMarker(data, playerChar, columnToPlayIn) ==
    LET numRows == Len(data)
        numCols == Len(data[1])
        col == PyIndex(numCols, columnToPlayIn)
        open == {row \in 0..(numRows - 1) : Cell(data, row, col) = EMPTY}
        row == CHOOSE r \in open : \A q \in open : r <= q
    IN  IF PyIndexError(numCols, columnToPlayIn) THEN Raise("IndexError", 50)
        ELSE IF open = {} THEN ReturnNone
        ELSE ReturnGrid([data EXCEPT ![row + 1][col + 1] = playerChar])

newGridAfterMove(self, playerChar, columnToPlayIn) ==
    LET newGrid == GameGrid(self.data)
        placed == PlaceMarker(newGrid.data, playerChar, columnToPlayIn)
    IN  IF placed.kind = "grid"
        THEN ReturnGrid([newGrid EXCEPT !.data = placed.val])
        ELSE placed

\* Python's list indexing without the bounds test: negative indices wrap
getMarkerAtLocationWrapping(self, r, c) ==
    IF PyIndexError(self.numRows, r) \/ PyIndexError(self.numCols, c)
    THEN <<>>
    ELSE <<Cell(self.data, PyIndex(self.numRows, r), PyIndex(self.numCols, c))>>

\* the marker as a string of length 1, or '' outside the grid
getMarkerAtLocation(self, r, c) ==
    IF r < 0 \/ r >= self.numRows \/ c < 0 \/ c >= self.numCols
    THEN <<>>
    ELSE <<Cell(self.data, r, c)>>

RECURSIVE Join(_)
Join(parts) == IF parts = <<>> THEN <<>> ELSE Head(parts) \o Join(Tail(parts))

getRowStrings(self) == [i \in 1..self.numRows |-> self.data[i]]

getColumnStrings(self) ==
    [i \in 1..self.numCols |->
        [r \in 1..self.numRows |-> Cell(self.data, r - 1, i - 1)]]

getDiagonalStrings(self) ==
    LET xs == Range(0, Max(self.numRows, self.numCols))
        up == Range(-self.numCols + 1, self.numRows)
        down == Range(-self.numCols, self.numRows - 1)
        upString(diag) ==
            Join([i \in 1..Len(xs) |->
                    getMarkerAtLocation(self, xs[i] + diag, xs[i])])
        downString(diag) ==
            Join([i \in 1..Len(xs) |->
                    getMarkerAtLocation(self, (self.numCols - xs[i]) + diag, xs[i])])
    IN  [i \in 1..Len(up) |-> upString(up[i])]
        \o [i \in 1..Len(down) |-> downString(down[i])]

\* the strings as computed; the memo of getAllDirectionStrings is per object
getAllDirectionStrings(self) ==
    getRowStrings(self) \o getColumnStrings(self) \o getDiagonalStrings(self)

\* str.count: the number of non-overlapping occurrences, scanning from the left
RECURSIVE CountFrom(_, _, _)
CountFrom(s, pat, i) ==
    IF i + Len(pat) - 1 > Len(s) THEN 0
    ELSE IF SubSeq(s, i, i + Len(pat) - 1) = pat
         THEN 1 + CountFrom(s, pat, i + Len(pat))
         ELSE CountFrom(s, pat, i + 1)

Count(s, pat) == CountFrom(s, pat, 1)

RECURSIVE Sum(_)
Sum(ns) == IF ns = <<>> THEN 0 ELSE Head(ns) + Sum(Tail(ns))

checkIfPlayerWon(self, playerChar) ==
    LET winningPattern == [i \in 1..4 |-> playerChar]
        strings == getAllDirectionStrings(self)
        numFourStreaks ==
            Sum([i \in 1..Len(strings) |-> Count(strings[i], winningPattern)])
    IN  numFourStreaks > 0

\* checkGameOver without its two checkIfPlayerWon calls
checkGameOverOnlyWhenFull(self) == checkAllColumnsFull(self)

checkGameOver(self) ==
    \/ checkAllColumnsFull(self)
    \/ checkIfPlayerWon(self, PLAYER_CHARS[1])
    \/ checkIfPlayerWon(self, PLAYER_CHARS[2])

(***************************************************************************)
(* GameState                                                               *)
(***************************************************************************)
\* GameState.__init__: bestAction is set only when some column is open, to
\* a column random.choice draws; pick is the position drawn
GameState(g, currentPlayerChar, pick) ==
    [grid |-> g,
     currentPlayerChar |-> currentPlayerChar,
     bestAction |-> IF ~checkAllColumnsFull(g)
                    THEN <<getNonFullColumnIndices(g)[pick]>>
                    ELSE <<>>]

\* the positions random.choice may draw from the open columns of g
Picks(g) ==
    IF checkAllColumnsFull(g) THEN {1} ELSE 1..Len(getNonFullColumnIndices(g))

getBestAction(self) == self.bestAction[1]

isTerminal(self) == checkGameOver(self.grid)

\* a heuristic that counts the markers of playerChar and nothing else
heuristicValueForPlayerOwnMarkers(self, playerChar) ==
    Fin(Cardinality({rc \in (1..self.grid.numRows) \X (1..self.grid.numCols) :
                        self.grid.data[rc[1]][rc[2]] = playerChar}))

heuristicValueForPlayer(self, playerChar) == Fin(0)

\* estimateValueForPlayer without its elif branch
estimateValueForPlayerNoLoss(self, playerChar) ==
    IF isTerminal(self)
    THEN IF checkIfPlayerWon(self.grid, playerChar) THEN PosInf ELSE Fin(0)
    ELSE heuristicValueForPlayer(self, playerChar)

estimateValueForPlayer(self, playerChar) ==
    IF isTerminal(self)
    THEN IF checkIfPlayerWon(self.grid, playerChar) THEN PosInf
         ELSE IF checkIfPlayerWon(self.grid, getOpponentChar(playerChar))
              THEN NegInf
              ELSE Fin(0)
    ELSE heuristicValueForPlayer(self, playerChar)

(***************************************************************************)
(* MiniMaxAIPlayer                                                         *)
(***************************************************************************)
MiniMaxAIPlayer(myPlayerChar, searchDepthLimit) ==
    [myPlayerChar |-> myPlayerChar, searchDepthLimit |-> searchDepthLimit]

\* line 107 tests depthLimit == 0 first: then line 108 reads gState.value,
\* an attribute no GameState has; otherwise it calls isTerminal with one
\* argument too many
getValueOfState(self, gState, depthLimit, alpha, beta) ==
    IF depthLimit = 0
    THEN Raise("AttributeError", 108)
    ELSE Raise("TypeError", 107)

\* clockOK: whether the interpreter still has time.clock (removed in
\* Python 3.8); curState is the root GameState line 92 constructs
chooseMove(self, g, clockOK, curState) ==
    IF ~clockOK THEN Raise("AttributeError", 91)
    ELSE LET val == getValueOfState(self, curState, self.searchDepthLimit,
                                    NegInf, PosInf)
         IN  IF val.kind = "raise" THEN val
             ELSE ReturnColumn(getBestAction(curState))

(***************************************************************************)
(* SpecGrid: calls on one grid.  makeEmptyGrid builds it; every call is    *)
(* recorded with its receiver and what it returned or raised, and a grid   *)
(* returned by newGridAfterMove becomes the current grid, as in main's     *)
(* grid = grid.newGridAfterMove(...).  A query leaves the grid as it is,   *)
(* so a behaviour applies one to the grid newGridAfterMove last returned   *)
(* and ends there: the states reached are those of any order of calls.     *)
(***************************************************************************)
Called(op, player, turn, column, depth, ret) ==
    [op |-> op, player |-> player, turn |-> turn, column |-> column,
     depth |-> depth, recv |-> grid, ret |-> ret]

Markers(g) ==
    Cardinality({rc \in (0..(g.numRows - 1)) \X (0..(g.numCols - 1)) :
                    Cell(g.data, rc[1], rc[2]) # EMPTY})

InitGrid ==
    /\ \E d \in GridDims : grid = makeEmptyGrid(d[1], d[2])
    /\ call = [op |-> "none", player |-> "-", turn |-> "-", column |-> 0,
               depth |-> 0, recv |-> grid, ret |-> ReturnNone]
    /\ lists = <<>>
    /\ grids = <<>>
    /\ states = <<>>
    /\ born = <<>>
    /\ totalNodesCreated = 0
    /\ main = NotRunning

\* the grid is as makeEmptyGrid or newGridAfterMove returned it
Fresh == call.op = "none" \/ call.ret.kind = "grid"

NewGridAfterMove(playerChar, columnToPlayIn) ==
    LET ret == newGridAfterMove(grid, playerChar, columnToPlayIn)
    IN  /\ Fresh
        /\ ret.kind = "grid" => Markers(grid) < MaxMoves
        /\ call' = Called("newGridAfterMove", playerChar, "-", columnToPlayIn, 0, ret)
        /\ grid' = IF ret.kind = "grid" THEN ret.val ELSE grid
        /\ UNCHANGED <<heapVars, main>>

GetNonFullColumnIndices ==
    /\ Fresh
    /\ call' = Called("getNonFullColumnIndices", "-", "-", 0, 0,
                      ReturnList(getNonFullColumnIndices(grid)))
    /\ UNCHANGED <<grid, heapVars, main>>

CheckAllColumnsFull ==
    /\ Fresh
    /\ call' = Called("checkAllColumnsFull", "-", "-", 0, 0,
                      ReturnBool(checkAllColumnsFull(grid)))
    /\ UNCHANGED <<grid, heapVars, main>>

CheckIfPlayerWon(playerChar) ==
    /\ Fresh
    /\ call' = Called("checkIfPlayerWon", playerChar, "-", 0, 0,
                      ReturnBool(checkIfPlayerWon(grid, playerChar)))
    /\ UNCHANGED <<grid, heapVars, main>>

CheckGameOver ==
    /\ Fresh
    /\ call' = Called("checkGameOver", "-", "-", 0, 0,
                      ReturnBool(checkGameOver(grid)))
    /\ UNCHANGED <<grid, heapVars, main>>

\* estimateValueForPlayer on GameState(grid, currentPlayerChar)
EstimateValueForPlayer(currentPlayerChar, playerChar) ==
    /\ Fresh
    /\ \E pick \in Picks(grid) :
         call' = Called("estimateValueForPlayer", playerChar, currentPlayerChar, 0, 0,
                        ReturnValue(estimateValueForPlayer(
                            GameState(grid, currentPlayerChar, pick), playerChar)))
    /\ totalNodesCreated' = totalNodesCreated + 1
    /\ UNCHANGED <<grid, lists, grids, states, born, main>>

ChooseMove(myPlayerChar, searchDepthLimit) ==
    /\ Fresh
    /\ \E clockOK \in BOOLEAN, pick \in Picks(grid) :
         /\ call' = Called("chooseMove", myPlayerChar, myPlayerChar, 0, searchDepthLimit,
                           chooseMove(MiniMaxAIPlayer(myPlayerChar, searchDepthLimit),
                                      grid, clockOK,
                                      GameState(grid, myPlayerChar, pick)))
         /\ totalNodesCreated' = totalNodesCreated + (IF clockOK THEN 1 ELSE 0)
    /\ UNCHANGED <<grid, lists, grids, states, born, main>>

\* getValueOfState, with the bounds chooseMove starts from, on
\* GameState(grid, currentPlayerChar)
GetValueOfState(currentPlayerChar, myPlayerChar, depthLimit) ==
    /\ Fresh
    /\ \E pick \in Picks(grid) :
         call' = Called("getValueOfState", myPlayerChar, currentPlayerChar, 0, depthLimit,
                        getValueOfState(MiniMaxAIPlayer(myPlayerChar, depthLimit),
                                        GameState(grid, currentPlayerChar, pick),
                                        depthLimit, NegInf, PosInf))
    /\ totalNodesCreated' = totalNodesCreated + 1
    /\ UNCHANGED <<grid, lists, grids, states, born, main>>

\* heuristicValueForPlayer on GameState(grid, currentPlayerChar)
HeuristicValueForPlayer(currentPlayerChar, playerChar) ==
    /\ Fresh
    /\ \E pick \in Picks(grid) :
         call' = Called("heuristicValueForPlayer", playerChar, currentPlayerChar, 0, 0,
                        ReturnValue(heuristicValueForPlayer(
                            GameState(grid, currentPlayerChar, pick), playerChar)))
    /\ totalNodesCreated' = totalNodesCreated + 1
    /\ UNCHANGED <<grid, lists, grids, states, born, main>>

NextGrid ==
    \/ \E p \in Players, c \in (-(grid.numCols + 1))..grid.numCols :
         NewGridAfterMove(p, c)
    \/ GetNonFullColumnIndices
    \/ CheckAllColumnsFull
    \/ \E p \in Players : CheckIfPlayerWon(p)
    \/ CheckGameOver
    \/ \E q \in Players, p \in Players : EstimateValueForPlayer(q, p)
    \/ \E p \in Players, d \in 0..MaxDepth : ChooseMove(p, d)
    \/ \E q \in Players, p \in Players, d \in 0..MaxDepth : GetValueOfState(q, p, d)
    \/ \E q \in Players, p \in Players : HeuristicValueForPlayer(q, p)

SpecGrid == InitGrid /\ [][NextGrid]_vars

(***************************************************************************)
(* SpecLines: checkIfPlayerWon on grids GameGrid(data) builds from any     *)
(* data: one player's markers on up to MaxMarkers cells, wherever they     *)
(* are, of a grid that is wider than high or higher than wide, the other   *)
(* cells all empty or all the other player's.                              *)
(***************************************************************************)
RECURSIVE SubsetsUpTo(_, _)
SubsetsUpTo(S, k) ==
    IF k = 0 THEN {{}}
    ELSE LET smaller == SubsetsUpTo(S, k - 1)
         IN  smaller \cup {T \cup {x} : T \in smaller, x \in S}

InitLines ==
    /\ \E d \in LineDims, p \in Players :
         \E rest \in {EMPTY, getOpponentChar(p)} :
            \E S \in SubsetsUpTo((1..d[1]) \X (1..d[2]), MaxMarkers) :
               grid = GameGrid([r \in 1..d[1] |-> [c \in 1..d[2] |->
                                   IF <<r, c>> \in S THEN p ELSE rest]])
    /\ call = [op |-> "none", player |-> "-", turn |-> "-", column |-> 0,
               depth |-> 0, recv |-> grid, ret |-> ReturnNone]
    /\ lists = <<>>
    /\ grids = <<>>
    /\ states = <<>>
    /\ born = <<>>
    /\ totalNodesCreated = 0
    /\ main = NotRunning

NextLines == \E p \in Players : CheckIfPlayerWon(p)

SpecLines == InitLines /\ [][NextLines]_vars

(***************************************************************************)
(* SpecHeap: the same classes as objects.  A GameGrid holds a reference to *)
(* its data, a GameState a reference to its GameGrid, and the history      *)
(* variable born keeps the cells each GameGrid had when it was             *)
(* constructed.  Objects nothing refers to any more are left out.          *)
(***************************************************************************)
Heap ==
    [lists |-> lists, grids |-> grids, states |-> states, born |-> born,
     total |-> totalNodesCreated]

SetHeap(h) ==
    /\ lists' = h.lists
    /\ grids' = h.grids
    /\ states' = h.states
    /\ born' = h.born
    /\ totalNodesCreated' = h.total

\* the GameGrid object g of heap h as a value: its data's cells, its sizes
GridValue(h, g) ==
    [data |-> h.lists[h.grids[g].data],
     numRows |-> h.grids[g].numRows,
     numCols |-> h.grids[g].numCols]

\* self.data = data: the grid keeps the caller's list itself
GameGridInitAliasing(ls, dataRef) == [lists |-> ls, data |-> dataRef]

\* GameGrid.__init__: self.data = copy.deepcopy(data), a new list object
GameGridInit(ls, dataRef) ==
    [lists |-> Append(ls, ls[dataRef]), data |-> Len(ls) + 1]

\* the attributes __init__ sets on a GameGrid: data, numRows, numCols, and
\* no allStringsCached (<<>> here; <<strings>> once it is set)
GameGridObject(dataRef, numRows, numCols) ==
    [data |-> dataRef, numRows |-> numRows, numCols |-> numCols,
     allStringsCached |-> <<>>]

\* newGrid = copy.deepcopy(self): every attribute of self comes along
newGridAfterMoveOnHeapCopyingSelf(h, g, playerChar, columnToPlayIn) ==
    LET init == GameGridInit(h.lists, h.grids[g].data)
        placed == PlaceMarker(init.lists[init.data], playerChar, columnToPlayIn)
    IN  IF placed.kind = "grid"
        THEN [h EXCEPT
                !.lists = [init.lists EXCEPT ![init.data] = placed.val],
                !.grids = Append(@, [h.grids[g] EXCEPT !.data = init.data]),
                !.born = Append(@, placed.val)]
        ELSE h

\* newGridAfterMove on object g: the copy is constructed, then written to
newGridAfterMoveOnHeap(h, g, playerChar, columnToPlayIn) ==
    LET init == GameGridInit(h.lists, h.grids[g].data)
        placed == PlaceMarker(init.lists[init.data], playerChar, columnToPlayIn)
    IN  IF placed.kind = "grid"
        THEN [h EXCEPT
                !.lists = [init.lists EXCEPT ![init.data] = placed.val],
                !.grids = Append(@, GameGridObject(init.data, Len(placed.val),
                                                   Len(placed.val[1]))),
                !.born = Append(@, placed.val)]
        ELSE h

\* getAllDirectionStrings on object g: the strings are computed and kept
\* unless the object has them already; the heap it leaves, what it returns
getAllDirectionStringsOnHeap(h, g) ==
    LET h1 == IF h.grids[g].allStringsCached = <<>>
              THEN [h EXCEPT !.grids[g].allStringsCached =
                                <<getAllDirectionStrings(GridValue(h, g))>>]
              ELSE h
    IN  [heap |-> h1, val |-> h1.grids[g].allStringsCached[1]]

\* checkIfPlayerWon on object g
checkIfPlayerWonOnHeap(h, g, playerChar) ==
    LET r == getAllDirectionStringsOnHeap(h, g)
        winStr == <<playerChar, playerChar, playerChar, playerChar>>
    IN  [heap |-> r.heap,
         val |-> \E i \in 1..Len(r.val) : Count(r.val[i], winStr) > 0]

\* checkGameOver on object g: an "or" of three calls, left to right
checkGameOverOnHeap(h, g) ==
    IF checkAllColumnsFull(GridValue(h, g)) THEN [heap |-> h, val |-> TRUE]
    ELSE LET x == checkIfPlayerWonOnHeap(h, g, PLAYER_CHARS[1])
         IN  IF x.val THEN x
             ELSE checkIfPlayerWonOnHeap(x.heap, g, PLAYER_CHARS[2])

\* GameState.__init__ on grid object g
GameStateOnHeap(h, g, currentPlayerChar, pick) ==
    LET value == GameState(GridValue(h, g), currentPlayerChar, pick)
    IN  [h EXCEPT
            !.total = @ + 1,
            !.states = Append(@, [grid |-> g,
                                  currentPlayerChar |-> currentPlayerChar,
                                  bestAction |-> value.bestAction])]

\* _getSuccessorForAction passing on the turn without flipping it
getSuccessorForActionSameTurn(h, s, columnToPlay, pick) ==
    LET self == h.states[s]
        h1 == newGridAfterMoveOnHeap(h, self.grid, self.currentPlayerChar, columnToPlay)
    IN  GameStateOnHeap(h1, Len(h1.grids), self.currentPlayerChar, pick)

\* _getSuccessorForAction: the new GameState is the last object of the heap
getSuccessorForAction(h, s, columnToPlay, pick) ==
    LET self == h.states[s]
        h1 == newGridAfterMoveOnHeap(h, self.grid, self.currentPlayerChar, columnToPlay)
    IN  GameStateOnHeap(h1, Len(h1.grids),
                        getOpponentChar(self.currentPlayerChar), pick)

getLegalActions(h, s) == getNonFullColumnIndices(GridValue(h, h.states[s].grid))

\* the list comprehension of getActionsAndSuccessors from its i-th action on:
\* the heap it leaves and the (action, successor) pairs, in out
RECURSIVE ActionsAndSuccessorsFrom(_, _, _, _, _, _)
ActionsAndSuccessorsFrom(h, s, actions, picks, i, out) ==
    IF i > Len(actions) THEN [heap |-> h, out |-> out]
    ELSE LET h1 == getSuccessorForAction(h, s, actions[i], picks[i])
         IN  ActionsAndSuccessorsFrom(h1, s, actions, picks, i + 1,
                                      Append(out, <<actions[i], Len(h1.states)>>))

getActionsAndSuccessors(h, s, picks) ==
    ActionsAndSuccessorsFrom(h, s, getLegalActions(h, s), picks, 1, <<>>)

\* the draws random.choice may make for the successors of s: one position
\* among the open columns of each successor's grid
SuccessorPicks(h, s) ==
    LET self == h.states[s]
        g == GridValue(h, self.grid)
        actions == getLegalActions(h, s)
    IN  {picks \in [1..Len(actions) -> 1..g.numCols] :
            \A i \in 1..Len(actions) :
                LET r == newGridAfterMove(g, self.currentPlayerChar, actions[i])
                IN  picks[i] \in (IF r.kind = "grid" THEN Picks(r.val) ELSE {1})}

HeapCalled(op, self, player, column, recv, ret) ==
    [op |-> op, self |-> self, player |-> player, column |-> column,
     recv |-> recv, ret |-> ret]

\* makeEmptyGrid(numRows, numCols): the list it builds is copied by GameGrid
InitHeap ==
    /\ \E d \in HeapDims :
         LET empty == [r \in 1..d[1] |-> [c \in 1..d[2] |-> EMPTY]]
             init == GameGridInit(<<empty>>, 1)
         IN  /\ grid = makeEmptyGrid(d[1], d[2])
             /\ lists = init.lists
             /\ grids = <<GameGridObject(init.data, d[1], d[2])>>
             /\ born = <<empty>>
    /\ states = <<>>
    /\ totalNodesCreated = 0
    /\ main = NotRunning
    /\ call = HeapCalled("makeEmptyGrid", 0, "-", 0, <<>>, ReturnRef(1))

HeapNewGridAfterMove(g, playerChar, columnToPlayIn) ==
    LET h == newGridAfterMoveOnHeap(Heap, g, playerChar, columnToPlayIn)
        made == Len(h.grids) > Len(grids)
    IN  /\ Len(grids) < MaxGrids
        /\ SetHeap(h)
        /\ call' = HeapCalled("newGridAfterMove", g, playerChar, columnToPlayIn,
                              GridValue(Heap, g),
                              IF made THEN ReturnRef(Len(h.grids)) ELSE ReturnNone)
        /\ UNCHANGED <<grid, main>>

\* GameState(grid, playerChar), as line 92 of chooseMove constructs the root
\* of a search; the GameState objects of the search before are unreferenced
\* by then
HeapGameState(g, currentPlayerChar) ==
    /\ states = <<>>
    /\ \E pick \in Picks(GridValue(Heap, g)) :
         LET h == GameStateOnHeap(Heap, g, currentPlayerChar, pick)
         IN  /\ SetHeap(h)
             /\ call' = HeapCalled("GameState", g, currentPlayerChar, 0,
                                   GridValue(Heap, g), ReturnRef(Len(h.states)))
    /\ UNCHANGED <<grid, main>>

HeapGetActionsAndSuccessors(s) ==
    /\ Len(grids) + Len(getLegalActions(Heap, s)) <= MaxGrids
    /\ Len(states) + Len(getLegalActions(Heap, s)) <= MaxStates
    /\ \E picks \in SuccessorPicks(Heap, s) :
         LET r == getActionsAndSuccessors(Heap, s, picks)
         IN  /\ SetHeap(r.heap)
             /\ call' = HeapCalled("getActionsAndSuccessors", s,
                                   states[s].currentPlayerChar, 0,
                                   [state |-> states[s],
                                    grid |-> GridValue(Heap, states[s].grid),
                                    total |-> totalNodesCreated],
                                   ReturnList(r.out))
    /\ UNCHANGED <<grid, main>>

NextHeap ==
    \/ \E g \in 1..Len(grids), p \in Players :
         \E c \in 0..(grids[g].numCols - 1) : HeapNewGridAfterMove(g, p, c)
    \/ \E g \in 1..Len(grids), p \in Players : HeapGameState(g, p)
    \/ \E s \in 1..Len(states) : HeapGetActionsAndSuccessors(s)

SpecHeap == InitHeap /\ [][NextHeap]_vars

(***************************************************************************)
(* SpecCache: GameGrid objects with their memo of direction strings, under *)
(* any interleaving of the calls that read or fill it and of drops.        *)
(***************************************************************************)
CacheNewGridAfterMove(g, playerChar, columnToPlayIn) ==
    /\ Len(grids) < MaxCachedGrids
    /\ HeapNewGridAfterMove(g, playerChar, columnToPlayIn)

\* recv tells whether g had its memo before the call
CacheGetAllDirectionStrings(g) ==
    LET r == getAllDirectionStringsOnHeap(Heap, g)
    IN  /\ SetHeap(r.heap)
        /\ call' = HeapCalled("getAllDirectionStrings", g, "-", 0,
                              [grid |-> GridValue(Heap, g),
                               hit |-> grids[g].allStringsCached # <<>>],
                              ReturnList(r.val))
        /\ UNCHANGED <<grid, main>>

CacheCheckIfPlayerWon(g, playerChar) ==
    LET r == checkIfPlayerWonOnHeap(Heap, g, playerChar)
    IN  /\ SetHeap(r.heap)
        /\ call' = HeapCalled("checkIfPlayerWon", g, playerChar, 0,
                              [grid |-> GridValue(Heap, g),
                               hit |-> grids[g].allStringsCached # <<>>],
                              ReturnBool(r.val))
        /\ UNCHANGED <<grid, main>>

CacheCheckGameOver(g) ==
    LET r == checkGameOverOnHeap(Heap, g)
    IN  /\ SetHeap(r.heap)
        /\ call' = HeapCalled("checkGameOver", g, "-", 0,
                              [grid |-> GridValue(Heap, g),
                               hit |-> grids[g].allStringsCached # <<>>],
                              ReturnBool(r.val))
        /\ UNCHANGED <<grid, main>>

NextCache ==
    \/ \E g \in 1..Len(grids), p \in Players :
         \E c \in 0..(grids[g].numCols - 1) : CacheNewGridAfterMove(g, p, c)
    \/ \E g \in 1..Len(grids) : CacheGetAllDirectionStrings(g)
    \/ \E g \in 1..Len(grids), p \in Players : CacheCheckIfPlayerWon(g, p)
    \/ \E g \in 1..Len(grids) : CacheCheckGameOver(g)

SpecCache == InitHeap /\ [][NextCache]_vars

(***************************************************************************)
(* SpecMain: main() and its turn loop.  main.pc is "loop" at the test of   *)
(* the while, "prompt" inside HumanPlayer.chooseMove with a choice read,   *)
(* "done" after the result is printed, "raised" when an exception has      *)
(* ended the program.  main() plays on makeEmptyGrid(6, 7); here the grid  *)
(* is one of MainDims, small enough for every game to be played out.       *)
(***************************************************************************)
HumanPlayer(playerChar) == [kind |-> "Human", playerChar |-> playerChar]

RandomAIPlayer(playerChar) == [kind |-> "Random", playerChar |-> playerChar]

\* the players choosePlayers may return for one side
PlayersFor(playerChar) ==
    {HumanPlayer(playerChar), RandomAIPlayer(playerChar)}
    \cup {[kind |-> "MiniMax"] @@ MiniMaxAIPlayer(playerChar, d) : d \in 0..MaxDepth}

\* the numbers a person may type at the prompt: columns, and numbers that
\* are no column
TypedNumbers(g) == (-1)..g.numCols

ElementsOf(list) == {list[i] : i \in 1..Len(list)}

InitMain ==
    /\ \E d \in MainDims : grid = makeEmptyGrid(d[1], d[2])
    /\ \E x \in PlayersFor(PLAYER_CHARS[1]), o \in PlayersFor(PLAYER_CHARS[2]) :
         main = [pc |-> "loop", players |-> <<x, o>>, currentPlayerIndex |-> 0,
                 choice |-> 0, moves |-> 0, said |-> "", exc |-> ""]
    /\ call = Called("none", "-", "-", 0, 0, ReturnNone)
    /\ lists = <<>>
    /\ grids = <<>>
    /\ states = <<>>
    /\ born = <<>>
    /\ totalNodesCreated = 0

CurrentPlayer == main.players[main.currentPlayerIndex + 1]

\* an exception nothing catches ends main()
MainRaises(exc) == main' = [main EXCEPT !.pc = "raised", !.exc = exc]

\* the two statements after chooseMove has returned actionColumnChoice
MainPlays(actionColumnChoice) ==
    LET r == newGridAfterMove(grid, PLAYER_CHARS[main.currentPlayerIndex + 1],
                              actionColumnChoice)
    IN  IF r.kind = "grid"
        THEN /\ grid' = r.val
             /\ main' = [main EXCEPT !.pc = "loop",
                                     !.choice = actionColumnChoice,
                                     !.moves = @ + 1,
                                     !.currentPlayerIndex = 1 - @]
        ELSE /\ grid' = grid
             /\ MainRaises(IF r.kind = "raise" THEN r.exc ELSE "AttributeError")

\* the while test is false: the result is printed
MainGameOver ==
    /\ main.pc = "loop"
    /\ checkGameOver(grid)
    /\ main' = [main EXCEPT
                  !.pc = "done",
                  !.said = IF checkIfPlayerWon(grid, PLAYER_CHARS[1]) THEN "X Wins!"
                           ELSE IF checkIfPlayerWon(grid, PLAYER_CHARS[2]) THEN "O Wins!"
                           ELSE "The game was a draw."]
    /\ UNCHANGED <<grid, call, heapVars>>

\* a turn of a RandomAIPlayer
MainRandomTurn ==
    /\ main.pc = "loop"
    /\ ~checkGameOver(grid)
    /\ CurrentPlayer.kind = "Random"
    /\ \E c \in ElementsOf(getNonFullColumnIndices(grid)) : MainPlays(c)
    /\ UNCHANGED <<call, heapVars>>

\* HumanPlayer.chooseMove reads its first line, a number
MainHumanTyped ==
    /\ main.pc = "loop"
    /\ ~checkGameOver(grid)
    /\ CurrentPlayer.kind = "Human"
    /\ \E n \in TypedNumbers(grid) : main' = [main EXCEPT !.pc = "prompt", !.choice = n]
    /\ UNCHANGED <<grid, call, heapVars>>

\* the choice is not a valid one and another line is read, a number
MainHumanTypedAgain(n) ==
    /\ main.pc = "prompt"
    /\ main.choice \notin ElementsOf(getNonFullColumnIndices(grid))
    /\ main' = [main EXCEPT !.choice = n]
    /\ UNCHANGED <<grid, call, heapVars>>

\* a line is read that int() refuses
MainHumanTypedText ==
    /\ \/ main.pc = "loop" /\ ~checkGameOver(grid) /\ CurrentPlayer.kind = "Human"
       \/ /\ main.pc = "prompt"
          /\ main.choice \notin ElementsOf(getNonFullColumnIndices(grid))
    /\ MainRaises("ValueError")
    /\ UNCHANGED <<grid, call, heapVars>>

\* the choice is a valid one: chooseMove returns it
MainHumanTurn ==
    /\ main.pc = "prompt"
    /\ main.choice \in ElementsOf(getNonFullColumnIndices(grid))
    /\ MainPlays(main.choice)
    /\ UNCHANGED <<call, heapVars>>

\* a turn of a MiniMaxAIPlayer
MainMiniMaxTurn ==
    /\ main.pc = "loop"
    /\ ~checkGameOver(grid)
    /\ CurrentPlayer.kind = "MiniMax"
    /\ \E clockOK \in BOOLEAN, pick \in Picks(grid) :
         LET r == chooseMove(CurrentPlayer, grid, clockOK,
                             GameState(grid, CurrentPlayer.myPlayerChar, pick))
         IN  /\ IF r.kind = "column" THEN MainPlays(r.val)
                ELSE grid' = grid /\ MainRaises(r.exc)
             /\ totalNodesCreated' = totalNodesCreated + (IF clockOK THEN 1 ELSE 0)
    /\ UNCHANGED <<call, lists, grids, states, born>>

NextMain ==
    \/ MainGameOver
    \/ MainRandomTurn
    \/ MainHumanTyped
    \/ \E n \in TypedNumbers(grid) : MainHumanTypedAgain(n)
    \/ MainHumanTypedText
    \/ MainHumanTurn
    \/ MainMiniMaxTurn

SpecMain == InitMain /\ [][NextMain]_vars

(***************************************************************************)
(* What the claims speak of, stated on the cells of a grid.                *)
(***************************************************************************)
Rows(g) == 0..(g.numRows - 1)
Cols(g) == 0..(g.numCols - 1)

InGrid(g, r, c) == r \in Rows(g) /\ c \in Cols(g)

\* along a row, along a column, and along the two diagonal orientations
Directions == {<<0, 1>>, <<1, 0>>, <<1, 1>>, <<1, -1>>}

\* four cells, each adjacent to the next along direction d, all holding p
FourAlong(g, p, d) ==
    \E r \in Rows(g), c \in Cols(g) :
        \A k \in 0..3 :
            /\ InGrid(g, r + k * d[1], c + k * d[2])
            /\ Cell(g.data, r + k * d[1], c + k * d[2]) = p

FourInLine(g, p) == \E d \in Directions : FourAlong(g, p, d)

\* the other of the two players
Opponent(p) == IF p = "X" THEN "O" ELSE "X"

TopCellEmpty(g, c) == Cell(g.data, g.numRows - 1, c) = EMPTY

OpenColumns(g) == {c \in Cols(g) : TopCellEmpty(g, c)}

Terminal(g) ==
    OpenColumns(g) = {} \/ FourInLine(g, "X") \/ FourInLine(g, "O")

EmptyRows(g, c) == {r \in Rows(g) : Cell(g.data, r, c) = EMPTY}

LowestEmptyRow(g, c) == CHOOSE r \in EmptyRows(g, c) : \A q \in EmptyRows(g, c) : r <= q

\* the grid after p's marker falls into open column c
After(g, p, c) ==
    [g EXCEPT !.data[LowestEmptyRow(g, c) + 1][c + 1] = p]

\* the open columns in which p's marker completes four in line
WinningColumns(g, p) == {c \in OpenColumns(g) : FourInLine(After(g, p, c), p)}

\* the open columns after which p's opponent has no winning column
BlockingColumns(g, p) ==
    {c \in OpenColumns(g) :
        WinningColumns(After(g, p, c), Opponent(p)) = {}}

\* the windows of four cells in line: a first cell and a direction
Windows(g) ==
    {w \in (Rows(g) \X Cols(g)) \X Directions :
        \A k \in 0..3 : InGrid(g, w[1][1] + k * w[2][1], w[1][2] + k * w[2][2])}

\* how many of the four cells of window w hold p
MarkersInWindow(g, w, p) ==
    Cardinality({k \in 0..3 :
        Cell(g.data, w[1][1] + k * w[2][1], w[1][2] + k * w[2][2]) = p})

\* the score of a window by its number of markers
WindowWeight(n) == CASE n = 0 -> 0 [] n = 1 -> 1 [] n = 2 -> 10 [] OTHER -> 50

RECURSIVE SumOver(_, _, _)
SumOver(g, ws, p) ==
    IF ws = {} THEN 0
    ELSE LET w == CHOOSE x \in ws : TRUE
         IN  WindowWeight(MarkersInWindow(g, w, p)) + SumOver(g, ws \ {w}, p)

\* the sum, over the windows free of p's opponent, of the window's score
WindowScore(g, p) ==
    SumOver(g, {w \in Windows(g) : MarkersInWindow(g, w, Opponent(p)) = 0}, p)

\* the order of search values: -infinity < every number < +infinity
ValueLess(a, b) == a[1] < b[1] \/ (a[1] = b[1] /\ a[2] < b[2])

Negated(v) == <<-v[1], -v[2]>>

\* the exact value of a terminal grid for p, the estimate of any other
LeafValue(g, q, p) ==
    IF Terminal(g)
    THEN IF FourInLine(g, p) THEN PosInf
         ELSE IF FourInLine(g, Opponent(p)) THEN NegInf ELSE Fin(0)
    ELSE heuristicValueForPlayer([grid |-> g, currentPlayerChar |-> q], p)

\* depth-limited minimax for p, with q to move, and no alpha or beta
RECURSIVE PlainMinimax(_, _, _, _)
PlainMinimax(g, q, p, depth) ==
    IF Terminal(g) \/ depth = 0 THEN LeafValue(g, q, p)
    ELSE LET children == {PlainMinimax(After(g, q, c), Opponent(q), p, depth - 1) :
                            c \in OpenColumns(g)}
         IN  IF q = p
             THEN CHOOSE v \in children : \A w \in children : ~ValueLess(v, w)
             ELSE CHOOSE v \in children : \A w \in children : ~ValueLess(w, v)

\* the lowest column whose child has the value of the node
PlainMinimaxColumn(g, p, depth) ==
    LET best == PlainMinimax(g, p, p, depth)
        bestColumns == {c \in OpenColumns(g) :
                          PlainMinimax(After(g, p, c), Opponent(p), p, depth - 1) = best}
    IN  CHOOSE c \in bestColumns : \A d \in bestColumns : c <= d

(***************************************************************************)
(* C1 - C20                                                                *)
(***************************************************************************)
DropInRangeNotFull ==
    /\ call.op = "newGridAfterMove"
    /\ call.column \in Cols(call.recv)
    /\ TopCellEmpty(call.recv, call.column)

\* C1: newGridAfterMove(p, c) with c in range and not full returns a grid that
\* differs from the receiver in exactly one cell, the lowest empty cell of
\* column c, which holds p's marker; every other cell is the receiver's.
C1_DropFillsLowestEmptyCell ==
    DropInRangeNotFull =>
        /\ call.ret.kind = "grid"
        /\ call.ret.val.numRows = call.recv.numRows
        /\ call.ret.val.numCols = call.recv.numCols
        /\ \A r \in Rows(call.recv), c \in Cols(call.recv) :
             Cell(call.ret.val.data, r, c) =
                IF c = call.column /\ r = LowestEmptyRow(call.recv, call.column)
                THEN call.player
                ELSE Cell(call.recv.data, r, c)

\* a marker dropped onto another one, with empty cells left above it
C1_Witness ==
    /\ DropInRangeNotFull
    /\ call.ret.kind = "grid"
    /\ LowestEmptyRow(call.recv, call.column) > 0
    /\ LowestEmptyRow(call.recv, call.column) < call.recv.numRows - 1

\* C2: no GameGrid is changed in place: whatever newGridAfterMove calls and
\* successor generation follow its construction, every GameGrid, the receivers
\* of those calls and the grids of sibling successors among them, holds the
\* cells it held when it was constructed.
C2_GridsKeepTheirCells ==
    \A g \in 1..Len(grids) : lists[grids[g].data] = born[g]

\* successors generated, two of them siblings, from a grid a call made earlier
C2_Witness ==
    /\ call.op = "getActionsAndSuccessors"
    /\ Len(call.ret.val) >= 2
    /\ states[call.self].grid > 1
    /\ Markers(call.recv.grid) > 0

DropFullOrOutOfRange ==
    /\ call.op = "newGridAfterMove"
    /\ \/ call.column \notin Cols(call.recv)
       \/ ~TopCellEmpty(call.recv, call.column)

\* C3: newGridAfterMove(p, c) with c full or outside [0, cols) signals an
\* error: it returns neither a grid nor another value, and places no marker.
C3_BadColumnRaises ==
    DropFullOrOutOfRange => call.ret.kind = "raise"

\* C4: on a grid of any size, checkIfPlayerWon(P) is true if and only if four
\* cells holding P's marker lie next to one another along a row, a column or
\* a diagonal of either orientation.
C4_WonIffFourInLine ==
    call.op = "checkIfPlayerWon" =>
        /\ call.ret.kind = "bool"
        /\ call.ret.val <=> FourInLine(call.recv, call.player)

\* a win along a falling diagonal only, on a grid that is not square
C4_Witness ==
    /\ call.op = "checkIfPlayerWon"
    /\ call.ret.val
    /\ call.recv.numRows # call.recv.numCols
    /\ ~FourAlong(call.recv, call.player, <<0, 1>>)
    /\ ~FourAlong(call.recv, call.player, <<1, 0>>)
    /\ ~FourAlong(call.recv, call.player, <<1, 1>>)

\* C5: getNonFullColumnIndices() returns exactly the columns whose top cell is
\* empty, each once, in ascending order, and returns the empty list if and
\* only if checkAllColumnsFull() is true.
C5_LegalColumnsAscending ==
    call.op = "getNonFullColumnIndices" =>
        LET s == call.ret.val
        IN  /\ call.ret.kind = "list"
            /\ \A i \in 1..Len(s), j \in 1..Len(s) : i < j => s[i] < s[j]
            /\ {s[i] : i \in 1..Len(s)} = OpenColumns(call.recv)
            /\ (s = <<>>) <=> checkAllColumnsFull(call.recv)

\* some columns are full and at least two are not
C5_Witness ==
    /\ call.op = "getNonFullColumnIndices"
    /\ Len(call.ret.val) >= 2
    /\ Len(call.ret.val) < call.recv.numCols

\* C6: estimateValueForPlayer(P) is +infinity on a terminal state where P has
\* four in line, otherwise -infinity on a terminal state where P's opponent
\* has four in line, otherwise 0 on a terminal state, and
\* heuristicValueForPlayer(P) on a state that is not terminal.
C6_EstimateByCases ==
    call.op = "estimateValueForPlayer" =>
        /\ call.ret.kind = "value"
        /\ call.ret.val =
             IF Terminal(call.recv)
             THEN IF FourInLine(call.recv, call.player) THEN PosInf
                  ELSE IF FourInLine(call.recv, Opponent(call.player))
                       THEN NegInf
                       ELSE Fin(0)
             ELSE heuristicValueForPlayer(
                      [grid |-> call.recv, currentPlayerChar |-> call.turn],
                      call.player)

\* a terminal state the opponent of P has won
C6_Witness ==
    /\ call.op = "estimateValueForPlayer"
    /\ FourInLine(call.recv, Opponent(call.player))
    /\ call.ret.val = NegInf

\* C7: getActionsAndSuccessors() on a state with player-to-move q returns one
\* (column, child) pair per legal column, in ascending column order; the
\* child's grid is the parent's grid after q drops into that column and the
\* child's player-to-move is q's opponent; the parent's grid and
\* player-to-move are as before the call.
C7_SuccessorsPerLegalColumn ==
    call.op = "getActionsAndSuccessors" =>
        LET out == call.ret.val
            parent == call.recv.state
            before == call.recv.grid
            q == parent.currentPlayerChar
        IN  /\ call.ret.kind = "list"
            /\ Len(out) = Cardinality(OpenColumns(before))
            /\ \A i \in 1..Len(out) : out[i][1] \in OpenColumns(before)
            /\ \A i \in 1..Len(out), j \in 1..Len(out) :
                 i < j => out[i][1] < out[j][1]
            /\ \A i \in 1..Len(out) :
                 /\ GridValue(Heap, states[out[i][2]].grid) = After(before, q, out[i][1])
                 /\ states[out[i][2]].currentPlayerChar = Opponent(q)
            /\ states[call.self].grid = parent.grid
            /\ states[call.self].currentPlayerChar = q
            /\ GridValue(Heap, parent.grid) = before

\* two successors, of a state whose grid already holds a marker
C7_Witness ==
    /\ call.op = "getActionsAndSuccessors"
    /\ Len(call.ret.val) = 2
    /\ Markers(call.recv.grid) > 0
    /\ call.recv.state.currentPlayerChar = "O"

\* C8: on a grid that is not terminal, chooseMove with a depth limit >= 0
\* returns normally, and returns one of the grid's legal columns.
C8_ChooseMoveReturnsLegalColumn ==
    (call.op = "chooseMove" /\ ~Terminal(call.recv)) =>
        /\ call.ret.kind = "column"
        /\ call.ret.val \in OpenColumns(call.recv)

\* C9: on a grid that is not terminal where some column completes four in
\* line for X, chooseMove for X with depth limit >= 1 returns such a column.
C9_ImmediateWinTaken ==
    (/\ call.op = "chooseMove"
     /\ call.player = "X"
     /\ call.depth >= 1
     /\ ~Terminal(call.recv)
     /\ WinningColumns(call.recv, "X") # {}) =>
        /\ call.ret.kind = "column"
        /\ call.ret.val \in WinningColumns(call.recv, "X")

\* C10: on a grid that is not terminal, with more than one legal column, where
\* X has no winning column and k is the only column after which O has no
\* winning column, chooseMove for X with depth limit >= 2 returns k.
C10_ForcedBlockPlayed ==
    (/\ call.op = "chooseMove"
     /\ call.player = "X"
     /\ call.depth >= 2
     /\ ~Terminal(call.recv)
     /\ Cardinality(OpenColumns(call.recv)) >= 2
     /\ WinningColumns(call.recv, "X") = {}
     /\ Cardinality(BlockingColumns(call.recv, "X")) = 1) =>
        /\ call.ret.kind = "column"
        /\ BlockingColumns(call.recv, "X") = {call.ret.val}

\* C11: getValueOfState started with alpha = -infinity and beta = +infinity
\* returns the value of plain depth-limited minimax over the same successors,
\* and chooseMove then returns the lowest column whose child has that value.
C11_AlphaBetaEqualsPlainMinimax ==
    /\ call.op = "getValueOfState" =>
         /\ call.ret.kind = "value"
         /\ call.ret.val = PlainMinimax(call.recv, call.turn, call.player, call.depth)
    /\ (call.op = "chooseMove" /\ call.depth >= 1 /\ ~Terminal(call.recv)) =>
         /\ call.ret.kind = "column"
         /\ call.ret.val = PlainMinimaxColumn(call.recv, call.player, call.depth)

\* C12: on a grid that is not terminal, heuristicValueForPlayer of P's opponent
\* is the negation of heuristicValueForPlayer of P.
C12_HeuristicZeroSum ==
    (call.op = "heuristicValueForPlayer" /\ ~Terminal(call.recv)) =>
        /\ call.ret.kind = "value"
        /\ heuristicValueForPlayer(
              [grid |-> call.recv, currentPlayerChar |-> call.turn],
              Opponent(call.player)) = Negated(call.ret.val)

\* a grid that is not terminal on which P has more markers than P's opponent
C12_Witness ==
    /\ call.op = "heuristicValueForPlayer"
    /\ ~Terminal(call.recv)
    /\ Cardinality({rc \in Rows(call.recv) \X Cols(call.recv) :
                       Cell(call.recv.data, rc[1], rc[2]) = call.player}) >= 2
    /\ \A rc \in Rows(call.recv) \X Cols(call.recv) :
          Cell(call.recv.data, rc[1], rc[2]) # Opponent(call.player)

\* C13: on a grid that is not terminal, heuristicValueForPlayer of P is the
\* score of the windows of four free of P's opponent, a score growing with
\* the number of P's markers in the window, minus the same score for the
\* opponent; so it is not one value on every grid.
C13_HeuristicIsWindowScore ==
    (call.op = "heuristicValueForPlayer" /\ ~Terminal(call.recv)) =>
        /\ call.ret.kind = "value"
        /\ call.ret.val = Fin(WindowScore(call.recv, call.player)
                              - WindowScore(call.recv, Opponent(call.player)))

\* C16: in every grid reached from makeEmptyGrid by newGridAfterMove, no
\* marker has an empty cell below it in its column; so the top cell of a
\* column holds a marker exactly when every cell of the column does.
C16_MarkersRestOnMarkers ==
    \A c \in Cols(grid) :
        /\ \A r \in Rows(grid) :
              (r > 0 /\ Cell(grid.data, r, c) # EMPTY) => Cell(grid.data, r - 1, c) # EMPTY
        /\ checkColumnFull(grid, c) <=> (\A r \in Rows(grid) : Cell(grid.data, r, c) # EMPTY)

\* a drop has just filled a column of two or more cells, next to a column
\* that holds a marker under an empty top cell
C16_Witness ==
    /\ call.op = "newGridAfterMove"
    /\ call.ret.kind = "grid"
    /\ grid.numRows >= 2
    /\ \E c \in Cols(grid) :
          /\ TopCellEmpty(call.recv, c)
          /\ ~TopCellEmpty(grid, c)
    /\ \E c \in Cols(grid) :
          /\ Cell(grid.data, 0, c) # EMPTY
          /\ TopCellEmpty(grid, c)

\* C17: getValueOfState ends, for every grid, player and depth limit >= 0;
\* on a state that is terminal, or at depth limit 0, it returns
\* estimateValueForPlayer for the searching player.
C17_LeafIsEstimated ==
    (call.op = "getValueOfState" /\ (call.depth = 0 \/ Terminal(call.recv))) =>
        /\ call.ret.kind = "value"
        /\ call.ret.val = estimateValueForPlayer(
                             [grid |-> call.recv, currentPlayerChar |-> call.turn],
                             call.player)

\* C14: chooseMove is deterministic; the column a search state holds while
\* no action has been marked best, which chooseMove then returns, is the
\* state's first legal column and never a random one.
C14_UnmarkedBestIsFirstLegalColumn ==
    (call.op = "GameState" /\ OpenColumns(call.recv) # {}) =>
        /\ states[call.ret.val].bestAction # <<>>
        /\ \A c \in OpenColumns(call.recv) : states[call.ret.val].bestAction[1] <= c

\* C15: getActionsAndSuccessors on a state whose grid has no legal column
\* raises an invalid-operation error and does not return normally.
C15_SuccessorsOfFullGridRaise ==
    (call.op = "getActionsAndSuccessors" /\ OpenColumns(call.recv.grid) = {}) =>
        call.ret.kind = "raise"

\* C15, amended: getActionsAndSuccessors on a state whose grid has no legal
\* column returns the empty list, and no GameState has been constructed
\* for it.
C15_SuccessorsOfFullGridEmpty ==
    (call.op = "getActionsAndSuccessors" /\ OpenColumns(call.recv.grid) = {}) =>
        /\ call.ret = ReturnList(<<>>)
        /\ totalNodesCreated = call.recv.total

\* successors have been asked of a state on a full grid
C15_Witness ==
    /\ call.op = "getActionsAndSuccessors"
    /\ OpenColumns(call.recv.grid) = {}
    /\ Markers(call.recv.grid) = call.recv.grid.numRows * call.recv.grid.numCols

\* C18: the strings a GameGrid has memoized are the strings computed afresh
\* from its cells, and so are the answers drawn from them, after any
\* interleaving of getAllDirectionStrings, checkIfPlayerWon, checkGameOver and
\* newGridAfterMove on the grid and the grids it came from.
C18_CachedStringsAreCurrent ==
    /\ \A g \in 1..Len(grids) :
          grids[g].allStringsCached # <<>> =>
              grids[g].allStringsCached[1] = getAllDirectionStrings(GridValue(Heap, g))
    /\ call.op = "getAllDirectionStrings" =>
          call.ret.val = getAllDirectionStrings(call.recv.grid)
    /\ call.op = "checkIfPlayerWon" =>
          call.ret.val = FourInLine(call.recv.grid, call.player)
    /\ call.op = "checkGameOver" =>
          call.ret.val = Terminal(call.recv.grid)

\* a grid made by a drop on a grid that had its memo has answered from a
\* memo of its own
C18_Witness ==
    /\ call.op = "getAllDirectionStrings"
    /\ call.recv.hit
    /\ Markers(call.recv.grid) > 0
    /\ \E g \in 1..Len(grids) :
          /\ g # call.self
          /\ grids[g].allStringsCached # <<>>
          /\ grids[g].allStringsCached # grids[call.self].allStringsCached

\* numRows rows of numCols cells, each empty or a player's marker
ValidGrid(g) ==
    /\ Len(g.data) = g.numRows
    /\ \A r \in 1..g.numRows :
          /\ Len(g.data[r]) = g.numCols
          /\ \A c \in 1..g.numCols : g.data[r][c] \in {EMPTY} \cup Players

\* both players are ones that return a legal column when they return
LegalPlayers == \A i \in 1..2 : main.players[i].kind \in {"Human", "Random"}

====
